---- MODULE Spec2Model ----
(***************************************************************************)
(* Model of mcp-server-whisper: the audio metadata cache                   *)
(* (infrastructure/cache.py), the batch fan-out of the services and of the *)
(* legacy server (asyncio.gather over per-item coroutines), the chunked    *)
(* text-to-speech pipeline, the three versions of the compression step,    *)
(* the listing of the file service, the whisper_local entry points and the *)
(* legacy server's format-support lookup.                                  *)
(*                                                                         *)
(* Each component has its own specification over the shared variable       *)
(* tuple; the variables of the other components are left unchanged.        *)
(***************************************************************************)
EXTENDS Integers, Sequences, FiniteSets, TLC

(***************************************************************************)
(* Bounds of the model.                                                    *)
(***************************************************************************)
MaxCalls == 4          \* cache get calls in one behaviour
MaxClears == 1         \* clear_cache calls in one behaviour
MaxInFlight == 2       \* get calls suspended in get_support_func at one time
MaxFailures == 1       \* get_support_func failures in one behaviour
CacheSize == 2         \* the maxsize the modelled AudioFileCache is built with

\* The (file_path, mtime, get_support_func) arguments of the modelled calls:
\* one file seen with two modified times, and the first of the two asked for
\* with a second compute function.
GetInputs ==
    {<<"a.wav", 100, "f">>, <<"a.wav", 200, "f">>, <<"a.wav", 100, "g">>}

NoValue == "none"

(***************************************************************************)
(* State of the cache component.                                           *)
(*   cache    the lru_cache entries, least recently used first             *)
(*   coros    the coroutine objects created by _get_support_impl           *)
(*   calls    the get calls made so far, in the order they started         *)
(*   hits, misses   the lru_cache statistics                               *)
(*   epoch    the number of clear_cache calls so far that had an entry or  *)
(*            a statistic to drop                                          *)
(***************************************************************************)
VARIABLES cache, coros, calls, hits, misses, epoch

(***************************************************************************)
(* State of one batch call.                                                *)
(*   batchOp  the batch operation that was called                          *)
(*   inputs   its input list                                               *)
(*   task     the tasks asyncio.gather made of the per-item coroutines     *)
(*   batch    what the awaiting caller of the batch has got so far         *)
(*   order    the indices of the finished tasks, in order of completion    *)
(***************************************************************************)
VARIABLES batchOp, inputs, task, batch, order

(***************************************************************************)
(* State of one TTSService.create_speech call.                             *)
(*   tts      the call: its text, its chunks, the synthesis request of     *)
(*            each chunk, the order the requests completed in, and the     *)
(*            output file                                                  *)
(***************************************************************************)
VARIABLES tts

(***************************************************************************)
(* State of one compress call (AudioService.compress_audio, server.py      *)
(* maybe_compress_file or whisper_local maybe_compress_file).              *)
(*   cmp      the call: its arguments, its position, the codec operations  *)
(*            and file writes it has made, and its outcome                 *)
(***************************************************************************)
VARIABLES cmp

(***************************************************************************)
(* State of the FileService.list_audio_files calls made on one directory.  *)
(*   lst      the directory as the filesystem lists it, the arguments of   *)
(*            the calls, the position and outcome of the current call, and *)
(*            the keys the global cache holds                              *)
(***************************************************************************)
VARIABLES lst

(***************************************************************************)
(* State of one run of a whisper_local entry point (main, the two command  *)
(* line pipelines, the transcribe_audio tool).                             *)
(*   wl       the arguments, the position in the pipeline, the files       *)
(*            written, the remote calls made, the conversation file and    *)
(*            the outcome                                                  *)
(***************************************************************************)
VARIABLES wl

(***************************************************************************)
(* State of the legacy server's support lookups.                           *)
(*   sup      the get_audio_file_support calls made so far, each with the  *)
(*            file it was made for and the record it returned              *)
(***************************************************************************)
VARIABLES sup

cacheVars == <<cache, coros, calls, hits, misses, epoch>>

batchVars == <<batchOp, inputs, task, batch, order>>

notCacheVars == <<batchVars, tts, cmp, lst, wl, sup>>

notBatchVars == <<cacheVars, tts, cmp, lst, wl, sup>>

notTtsVars == <<cacheVars, batchVars, cmp, lst, wl, sup>>

notCmpVars == <<cacheVars, batchVars, tts, lst, wl, sup>>

notListVars == <<cacheVars, batchVars, tts, cmp, wl, sup>>

notWlVars == <<cacheVars, batchVars, tts, cmp, lst, sup>>

notSupVars == <<cacheVars, batchVars, tts, cmp, lst, wl>>

vars == <<cache, coros, calls, hits, misses, epoch,
          batchOp, inputs, task, batch, order, tts, cmp, lst, wl, sup>>

\* The components that take no part in a specification stay as constructed.
IdleCache ==
    /\ cache = <<>>
    /\ coros = <<>>
    /\ calls = <<>>
    /\ hits = 0
    /\ misses = 0
    /\ epoch = 0

IdleBatch ==
    /\ batchOp = "none"
    /\ inputs = <<>>
    /\ task = <<>>
    /\ batch = [state |-> "idle", results |-> <<>>,
                 err |-> [msg |-> <<>>, cause |-> "none"], item |-> 0]
    /\ order = <<>>

\* _global_audio_file_cache = AudioFileCache(maxsize=32)
GlobalMaxsize == 32

\* AudioFileCache.__init__: the capacity handed to lru_cache.
maxsize == CacheSize

\* A bug that leaves the modified time out of the key.
CacheKeyWithoutMtime(path, mtime, fn) == <<path, 0, fn>>

\* The key lru_cache builds from the positional arguments of the wrapped
\* bound method: (file_path, mtime, get_support_func).
CacheKey(path, mtime, fn) == <<path, mtime, fn>>

\* What get_support_func(Path(file_path)) yields for a file whose
\* modified time is mtime.
SupportInfo(path, mtime) == [path |-> path, modified_time |-> mtime]

RECURSIVE IndexOfKey(_, _, _)
IndexOfKey(c, k, i) ==
    IF i > Len(c) THEN 0
    ELSE IF c[i].key = k THEN i
    ELSE IndexOfKey(c, k, i + 1)

\* Position of key k in the cache, 0 when it is not resident.
Lookup(c, k) == IndexOfKey(c, k, 1)

RemoveAt(s, i) == [j \in 1..(Len(s) - 1) |-> IF j < i THEN s[j] ELSE s[j + 1]]

\* A first-in first-out cache: a hit leaves the order of the entries alone.
LeaveInPlace(c, i) == c

\* lru_cache hit: the entry becomes the most recently used one.
MoveToMRU(c, i) == Append(RemoveAt(c, i), c[i])

\* A store that grows without dropping anything.
InsertWithoutEviction(c, e) == Append(c, e)

\* lru_cache miss: the new entry is stored as most recently used; when the
\* cache is full the least recently used entry is dropped first.
InsertMRU(c, e) ==
    IF Len(c) >= maxsize THEN Append(Tail(c), e) ELSE Append(c, e)

InFlight == {j \in 1..Len(calls) : calls[j].pc = "suspended"}

IdleTts == tts = [pc |-> "none"]

IdleCmp == cmp = [pc |-> "none"]

IdleList == lst = [pc |-> "none"]

IdleWl == wl = [pc |-> "none"]

IdleSup == sup = <<>>

InitCache ==
    /\ IdleCache
    /\ IdleBatch
    /\ IdleTts
    /\ IdleCmp
    /\ IdleList
    /\ IdleWl
    /\ IdleSup

(***************************************************************************)
(* get_cached_audio_file_support(file_path, mtime, get_support_func), up   *)
(* to its first suspension point.  The lru_cache wrapper runs without      *)
(* suspending: on a miss it calls _get_support_impl, which only creates a  *)
(* coroutine object, and stores that object; on a hit it returns the       *)
(* stored object.  The caller then awaits the object it was handed:        *)
(*   a fresh coroutine starts and calls get_support_func, which suspends;  *)
(*   a coroutine some other call is awaiting raises RuntimeError           *)
(*     ("coroutine is being awaited already");                             *)
(*   a coroutine that already ran to its end (it returned or it raised)    *)
(*     raises RuntimeError                                                 *)
(*     ("cannot reuse already awaited coroutine").                         *)
(***************************************************************************)
AwaitOutcome(state) ==
    CASE state = "created" -> [pc |-> "suspended", err |-> "none"]
      [] state = "running" -> [pc |-> "raised", err |-> "being_awaited"]
      [] OTHER -> [pc |-> "raised", err |-> "reuse"]

get_cached_audio_file_support(path, mtime, fn) ==
    /\ Len(calls) < MaxCalls
    /\ Cardinality(InFlight) < MaxInFlight
    /\ LET k == CacheKey(path, mtime, fn)
           i == Lookup(cache, k)
           hit == i # 0
           id == IF hit THEN cache[i].coro ELSE Len(coros) + 1
           found == IF hit THEN coros[id].state ELSE "created"
           out == AwaitOutcome(found)
           coros1 == IF hit THEN coros
                     ELSE Append(coros, [state |-> "created", path |-> path,
                                         mtime |-> mtime, fn |-> fn])
       IN /\ cache' = IF hit THEN MoveToMRU(cache, i)
                      ELSE InsertMRU(cache, [key |-> k, coro |-> id])
          /\ hits' = IF hit THEN hits + 1 ELSE hits
          /\ misses' = IF hit THEN misses ELSE misses + 1
          /\ coros' = IF found = "created"
                      THEN [coros1 EXCEPT ![id].state = "running"]
                      ELSE coros1
          /\ calls' = Append(calls,
                 [path |-> path, mtime |-> mtime, fn |-> fn,
                  coro |-> id, hit |-> hit, found |-> found,
                  computed |-> (found = "created"),
                  pc |-> out.pc, err |-> out.err, result |-> NoValue,
                  epoch |-> epoch,
                  sequential |-> (InFlight = {}),
                  overlap |-> (hit /\ found = "running")])
    /\ UNCHANGED <<epoch, notCacheVars>>

\* _get_support_impl resumes: get_support_func returned, the coroutine
\* finishes and the call that was awaiting it returns the value.
ComputeReturn(j) ==
    /\ j \in InFlight
    /\ calls' = [calls EXCEPT ![j].pc = "returned",
                              ![j].result = SupportInfo(calls[j].path, calls[j].mtime)]
    /\ coros' = [coros EXCEPT ![calls[j].coro].state = "returned"]
    /\ UNCHANGED <<cache, hits, misses, epoch, notCacheVars>>

\* _get_support_impl resumes: get_support_func raised, the exception
\* passes through the coroutine to the call that was awaiting it.
ComputeRaise(j) ==
    /\ j \in InFlight
    /\ Cardinality({i \in 1..Len(calls) : calls[i].err = "compute_error"}) < MaxFailures
    /\ calls' = [calls EXCEPT ![j].pc = "raised", ![j].err = "compute_error"]
    /\ coros' = [coros EXCEPT ![calls[j].coro].state = "failed"]
    /\ UNCHANGED <<cache, hits, misses, epoch, notCacheVars>>

\* The cache is as lru_cache built it: no entry, no hit and no miss counted.
Pristine == cache = <<>> /\ hits = 0 /\ misses = 0

\* A clear that resets the statistics and keeps the entries.
clear_statistics_only ==
    /\ epoch < MaxClears
    /\ cache' = cache
    /\ hits' = 0
    /\ misses' = 0
    /\ epoch' = IF Pristine THEN epoch ELSE epoch + 1
    /\ UNCHANGED <<coros, calls, notCacheVars>>

\* AudioFileCache.clear_cache / clear_global_cache: lru_cache.cache_clear
\* drops the entries and resets the statistics.  Clearing a pristine cache
\* changes nothing, so it starts no new epoch.
clear_cache ==
    /\ epoch < MaxClears
    /\ cache' = <<>>
    /\ hits' = 0
    /\ misses' = 0
    /\ epoch' = IF Pristine THEN epoch ELSE epoch + 1
    /\ UNCHANGED <<coros, calls, notCacheVars>>

\* AudioFileCache.cache_info / get_global_cache_info: a read of the
\* lru_cache statistics that changes nothing; the CacheInfo it returns in
\* the current state.
cache_info ==
    [hits |-> hits, misses |-> misses,
     maxsize |-> maxsize, currsize |-> Len(cache)]

NextCache ==
    \/ \E in \in GetInputs :
          get_cached_audio_file_support(in[1], in[2], in[3])
    \/ \E j \in 1..MaxCalls : ComputeReturn(j)
    \/ \E j \in 1..MaxCalls : ComputeRaise(j)
    \/ clear_cache

SpecCache == InitCache /\ [][NextCache]_vars

(***************************************************************************)
(* Batch fan-out.  Every batch operation is                                *)
(* one asyncio.gather over the process_single coroutines of its inputs,    *)
(* in input order.  A file path is a record of its stem and its *)
(* extension as written; a file is a path with whether it exists.  For a   *)
(* list request the record stands for the request's parameters.            *)
(***************************************************************************)
MaxBatch == 3          \* items in one batch

Lower(ext) ==
    CASE ext = "MP3" -> "mp3"
      [] ext = "WAV" -> "wav"
      [] OTHER -> ext

Files ==
    {[path |-> [stem |-> "a", ext |-> "WAV"], exists |-> TRUE],
     [path |-> [stem |-> "c", ext |-> "ogg"], exists |-> TRUE],
     [path |-> [stem |-> "d", ext |-> "mp3"], exists |-> FALSE]}

BatchOps ==
    {"transcribe_audio_batch", "chat_with_audio_batch", "list_audio_files_batch",
     "convert_audio", "compress_audio", "transcribe_audio", "transcribe_with_llm"}

\* str(path): the text of a path inside a message.
PathStr(p) == p.stem \o "." \o p.ext

NoError == [msg |-> <<>>, cause |-> "none"]

NoResult == [op |-> "none", of |-> "none", early |-> FALSE]

Contains(msg, tok) == \E i \in 1..Len(msg) : msg[i] = tok

\* chat_with_audio: raise ValueError(f"Expected mp3 or wav extension, but got {ext}")
\* transcribe_with_llm: assert ext in ["mp3", "wav"], the same text.
ExtensionError(f) ==
    [msg |-> <<"Expected mp3 or wav extension, but got ", Lower(f.path.ext)>>,
     cause |-> "Expected mp3 or wav extension, but got "]

\* server.py: raise FileNotFoundError(f"File not found: {input_data.file_path}")
FileNotFound(f) ==
    [msg |-> <<"File not found: ", PathStr(f.path)>>, cause |-> "File not found: "]

\* Checks that leave the extension to the remote API.
ValidateExistenceOnly(op, f) ==
    IF op \in {"transcribe_audio", "transcribe_with_llm"} /\ ~f.exists
    THEN FileNotFound(f) ELSE NoError

\* The checks a per-item coroutine makes before its first suspension point:
\* NoError when the item passes them, the error it raises otherwise.
Validate(op, f) ==
    CASE op = "chat_with_audio_batch" ->
            IF Lower(f.path.ext) \notin {"mp3", "wav"}
            THEN ExtensionError(f) ELSE NoError
      [] op = "transcribe_audio" ->
            IF ~f.exists THEN FileNotFound(f) ELSE NoError
      [] op = "transcribe_with_llm" ->
            IF ~f.exists THEN FileNotFound(f)
            ELSE IF Lower(f.path.ext) \notin {"mp3", "wav"}
            THEN ExtensionError(f) ELSE NoError
      [] OTHER -> NoError

\* The calls the per-item coroutine of file f awaits, in order.
\* compress_audio reads the file for its size, converts a file that is not
\* an mp3, downsamples and reads the new file.
Stages(op, f) ==
    CASE op = "transcribe_audio_batch" -> <<"read", "remote">>
      [] op = "chat_with_audio_batch" -> <<"read", "remote">>
      [] op = "list_audio_files_batch" -> <<"list", "support">>
      [] op = "convert_audio" -> <<"convert">>
      [] op = "compress_audio" ->
            IF Lower(f.path.ext) = "mp3"
            THEN <<"size", "compress", "new_size">>
            ELSE <<"size", "convert", "compress", "new_size">>
      [] op = "transcribe_audio" -> <<"remote">>
      [] op = "transcribe_with_llm" -> <<"remote">>

\* The ways an awaited call can end for file f: "ok" (go on), "fail"
\* (raise), "finish" (return early: the file needs no compression).
StageOutcomes(op, stage, f) ==
    CASE stage = "read" -> IF f.exists THEN {"ok"} ELSE {"fail"}
      [] stage = "size" -> IF f.exists THEN {"ok", "finish"} ELSE {"fail"}
      [] stage \in {"list", "new_size"} -> {"ok"}
      [] stage = "convert" /\ op = "convert_audio" ->
            IF f.exists THEN {"ok", "fail"} ELSE {"fail"}
      [] OTHER -> {"ok", "fail"}

\* file_repo.read_audio_file / aiofiles.open on a missing file.
ReadError(f) ==
    [msg |-> <<"No such file or directory: ", PathStr(f.path)>>,
     cause |-> "No such file or directory: "]

\* A wrapper that replaces the error of the failing call by one of its own.
StageErrorReplaced(op, stage, f) ==
    [msg |-> <<"processing failed">>, cause |-> "processing failed"]

\* The error a per-item coroutine raises when stage fails.  The services
\* let the error of the failing call pass unchanged; the legacy tools wrap
\* it in a RuntimeError that names the file.
StageError(op, stage, f) ==
    CASE op = "transcribe_audio_batch" /\ stage = "read" -> ReadError(f)
      [] op = "chat_with_audio_batch" /\ stage = "read" -> ReadError(f)
      [] op \in {"transcribe_audio_batch", "chat_with_audio_batch"} /\ stage = "remote" ->
            [msg |-> <<"remote error">>, cause |-> "remote error"]
      [] op = "list_audio_files_batch" ->
            [msg |-> <<"cannot reuse already awaited coroutine">>,
             cause |-> "cannot reuse already awaited coroutine"]
      [] op = "convert_audio" ->
            [msg |-> <<"Audio conversion failed for ", PathStr(f.path), ": ",
                       "Audio conversion failed: ", "codec error">>,
             cause |-> "codec error"]
      [] op = "compress_audio" /\ stage = "size" ->
            [msg |-> <<"Audio compression failed for ", PathStr(f.path), ": ">>
                        \o ReadError(f).msg,
             cause |-> ReadError(f).cause]
      [] op = "compress_audio" /\ stage = "convert" ->
            [msg |-> <<"Audio compression failed for ", PathStr(f.path), ": ",
                       "[maybe_compress_file] Error converting to MP3: ",
                       "Audio conversion failed: ", "codec error">>,
             cause |-> "codec error"]
      [] op = "compress_audio" ->
            [msg |-> <<"Audio compression failed for ", PathStr(f.path), ": ",
                       "[maybe_compress_file] Error compressing MP3 file: ",
                       "Error compressing mp3 file: ", "codec error">>,
             cause |-> "codec error"]
      [] op = "transcribe_audio" ->
            [msg |-> <<"Whisper processing failed for ", PathStr(f.path), ": ", "remote error">>,
             cause |-> "remote error"]
      [] op = "transcribe_with_llm" ->
            [msg |-> <<"GPT-4 processing failed for ", PathStr(f.path), ": ", "remote error">>,
             cause |-> "remote error"]

\* What the per-item coroutine returns for file f.
ItemResult(op, f, early) ==
    [op |-> op, of |-> PathStr(f.path), early |-> early]

NewTask(f) ==
    [input |-> f, pc |-> "pending", stage |-> 0, started |-> <<>>,
     result |-> NoResult, err |-> NoError]

Finished(t) == t.pc \in {"done", "failed"}

\* asyncio.gather, return_exceptions = False: the list handed to the caller
\* once every task has returned holds the tasks' results in the order of
\* the arguments.
GatherResultsByCompletion(tasks, completed) ==
    [i \in 1..Len(tasks) |-> tasks[completed[i]].result]

GatherResults(tasks, completed) ==
    [i \in 1..Len(tasks) |-> tasks[i].result]

\* asyncio.gather, return_exceptions = True: exceptions are collected in the
\* result list like values.
GatherCollectingExceptions(b, tasks, completed, i) ==
    IF \A j \in 1..Len(tasks) : Finished(tasks[j])
    THEN [b EXCEPT !.state = "returned",
                   !.results = [j \in 1..Len(tasks) |->
                                  IF tasks[j].pc = "failed"
                                  THEN [op |-> "exception",
                                        of |-> PathStr(tasks[j].input.path),
                                        early |-> FALSE]
                                  ELSE tasks[j].result]]
    ELSE b

\* asyncio.gather, return_exceptions = False, when task i has just finished:
\* the first exception is handed to the caller at once; the result list is
\* handed over when the last task returns and none has raised.
GatherOnDone(b, tasks, completed, i) ==
    IF b.state # "awaiting" THEN b
    ELSE IF tasks[i].pc = "failed"
    THEN [b EXCEPT !.state = "raised", !.err = tasks[i].err, !.item = i]
    ELSE IF \A j \in 1..Len(tasks) : tasks[j].pc = "done"
    THEN [b EXCEPT !.state = "returned", !.results = GatherResults(tasks, completed)]
    ELSE b

\* A gather that cancels the tasks still running when one raises.
CancelSiblings(tasks, i) ==
    [j \in 1..Len(tasks) |->
        IF j # i /\ ~Finished(tasks[j]) /\ tasks[i].pc = "failed"
        THEN [tasks[j] EXCEPT !.pc = "failed", !.err = [msg |-> <<"cancelled">>,
                                                        cause |-> "cancelled"]]
        ELSE tasks[j]]

\* asyncio.gather, when task i has just finished: the other tasks are not
\* cancelled and keep running.
Siblings(tasks, i) == tasks

InitBatch ==
    /\ IdleCache
    /\ IdleTts
    /\ IdleCmp
    /\ IdleList
    /\ IdleWl
    /\ IdleSup
    /\ batchOp \in BatchOps
    /\ inputs \in UNION {[1..n -> Files] : n \in 1..MaxBatch}
    /\ task = <<>>
    /\ batch = [state |-> "idle", results |-> <<>>, err |-> NoError, item |-> 0]
    /\ order = <<>>

\* The batch method is called: one coroutine per input, all of them wrapped
\* in tasks by gather before the caller is suspended on the gather future.
Dispatch ==
    /\ batch.state = "idle"
    /\ task' = [i \in 1..Len(inputs) |-> NewTask(inputs[i])]
    /\ batch' = [batch EXCEPT !.state = "awaiting"]
    /\ UNCHANGED <<batchOp, inputs, order, notBatchVars>>

Complete(i, t) ==
    LET tasks1 == [task EXCEPT ![i] = t]
        order1 == Append(order, i)
    IN /\ task' = Siblings(tasks1, i)
       /\ order' = order1
       /\ batch' = GatherOnDone(batch, tasks1, order1, i)

Advance(i, t) ==
    IF t.stage < Len(Stages(batchOp, t.input))
    THEN /\ task' = [task EXCEPT ![i] =
                       [t EXCEPT !.pc = "suspended", !.stage = t.stage + 1,
                                 !.started = Append(t.started,
                                                Stages(batchOp, t.input)[t.stage + 1])]]
         /\ UNCHANGED <<batch, order>>
    ELSE Complete(i, [t EXCEPT !.pc = "done",
                               !.result = ItemResult(batchOp, t.input, FALSE)])

\* The event loop runs task i for the first time (tasks start in the order
\* they were created): the item is validated and its first call is begun.
StartItem(i) ==
    /\ batch.state # "idle"
    /\ i \in 1..Len(task)
    /\ task[i].pc = "pending"
    /\ \A j \in 1..(i - 1) : task[j].pc # "pending"
    /\ LET v == Validate(batchOp, task[i].input)
       IN IF v # NoError
          THEN Complete(i, [task[i] EXCEPT !.pc = "failed", !.err = v])
          ELSE Advance(i, task[i])
    /\ UNCHANGED <<batchOp, inputs, notBatchVars>>

\* The call task i is suspended in ends and the task runs to its next
\* suspension point, to its return or to its raise.
ResumeItem(i, outcome) ==
    /\ i \in 1..Len(task)
    /\ task[i].pc = "suspended"
    /\ LET t == task[i]
           stage == Stages(batchOp, t.input)[t.stage]
       IN /\ outcome \in StageOutcomes(batchOp, stage, t.input)
          /\ CASE outcome = "ok" -> Advance(i, t)
               [] outcome = "finish" ->
                    Complete(i, [t EXCEPT !.pc = "done",
                                          !.result = ItemResult(batchOp, t.input, TRUE)])
               [] outcome = "fail" ->
                    Complete(i, [t EXCEPT !.pc = "failed",
                                          !.err = StageError(batchOp, stage, t.input)])
    /\ UNCHANGED <<batchOp, inputs, notBatchVars>>

NextBatch ==
    \/ Dispatch
    \/ \E i \in 1..MaxBatch : StartItem(i)
    \/ \E i \in 1..MaxBatch, o \in {"ok", "fail", "finish"} : ResumeItem(i, o)

SpecBatch == InitBatch /\ [][NextBatch]_vars

\* The event loop keeps running the tasks that are ready.
FairSpecBatch == SpecBatch /\ WF_vars(NextBatch)

(***************************************************************************)
(* Text to speech.  A text is a sequence of sentences; an audio buffer is  *)
(* the sequence of the sentences spoken in it.                             *)
(***************************************************************************)
MaxChunks == 3         \* chunks of one text

Sentences == {"s1", "s2", "s3"}

\* utils.split_text_for_tts: the text cut at sentence boundaries into
\* chunks that fit one request each, in text order.
split_text_for_tts(text) == [i \in 1..Len(text) |-> <<text[i]>>]

\* openai_client.text_to_speech: the audio of one chunk.
text_to_speech(chunk) == chunk

\* openai_client.generate_tts_chunks: the chunks are synthesized
\* concurrently and their audio is returned in chunk order.
generate_tts_chunks(reqs) == [i \in 1..Len(reqs) |-> reqs[i].audio]

RECURSIVE concatenate_audio_segments(_)
\* AudioProcessor.concatenate_audio_segments: the buffers joined in the
\* order given.
concatenate_audio_segments(audio_chunks) ==
    IF audio_chunks = <<>> THEN <<>>
    ELSE Head(audio_chunks) \o concatenate_audio_segments(Tail(audio_chunks))

\* A bug that writes the first buffer as in the single-chunk branch.
FirstChunkAudio(audio_chunks) == audio_chunks[1]

\* create_speech: the audio it hands to write_audio_file, the one buffer of
\* a single chunk or the concatenation of the buffers of several.
AudioToWrite(audio_chunks) ==
    IF Len(audio_chunks) = 1 THEN audio_chunks[1]
    ELSE concatenate_audio_segments(audio_chunks)

InitTts ==
    /\ IdleCache
    /\ IdleBatch
    /\ IdleCmp
    /\ IdleList
    /\ IdleWl
    /\ IdleSup
    /\ \E text \in UNION {[1..n -> Sentences] : n \in 1..MaxChunks} :
          tts = [pc |-> "idle", text |-> text, chunks |-> <<>>, req |-> <<>>,
                 order |-> <<>>, file |-> <<>>, writes |-> 0]

\* create_speech up to its first suspension point: the text is split and
\* one synthesis request per chunk is sent.
create_speech ==
    /\ tts.pc = "idle"
    /\ LET chunks == split_text_for_tts(tts.text)
       IN tts' = [tts EXCEPT
                    !.pc = "synth",
                    !.chunks = chunks,
                    !.req = [i \in 1..Len(chunks) |->
                               [pc |-> "suspended", audio |-> <<>>, requests |-> 1]]]
    /\ UNCHANGED notTtsVars

\* The synthesis request of chunk i returns its audio.  When it is the last
\* one, create_speech resumes.
SynthReturn(i) ==
    /\ i \in 1..Len(tts.req)
    /\ tts.req[i].pc = "suspended"
    /\ LET req1 == [tts.req EXCEPT ![i].pc = "done",
                                   ![i].audio = text_to_speech(tts.chunks[i])]
           all == \A j \in 1..Len(req1) : req1[j].pc = "done"
       IN tts' = [tts EXCEPT
                    !.req = req1,
                    !.order = Append(tts.order, i),
                    !.pc = IF tts.pc = "synth" /\ all THEN "write" ELSE tts.pc]
    /\ UNCHANGED notTtsVars

\* A handler that swallows the failure of a chunk: the chunk is left out
\* and create_speech goes on to write the audio of the others.
SynthRaiseSwallowed(i) ==
    /\ i \in 1..Len(tts.req)
    /\ tts.req[i].pc = "suspended"
    /\ LET req1 == [tts.req EXCEPT ![i].pc = "failed"]
           all == \A j \in 1..Len(req1) : req1[j].pc # "suspended"
       IN tts' = [tts EXCEPT
                    !.req = req1,
                    !.order = Append(tts.order, i),
                    !.pc = IF tts.pc = "synth" /\ all THEN "write" ELSE tts.pc]
    /\ UNCHANGED notTtsVars

\* The synthesis request of chunk i fails: create_speech raises.  The other
\* requests are not cancelled.
SynthRaise(i) ==
    /\ i \in 1..Len(tts.req)
    /\ tts.req[i].pc = "suspended"
    /\ tts' = [tts EXCEPT
                 !.req[i].pc = "failed",
                 !.order = Append(tts.order, i),
                 !.pc = IF tts.pc = "synth" THEN "failed" ELSE tts.pc]
    /\ UNCHANGED notTtsVars

\* create_speech after the last request: the audio is concatenated (when
\* there are several chunks) and written to the output path.
WriteSpeech ==
    /\ tts.pc = "write"
    /\ tts' = [tts EXCEPT
                 !.pc = "done",
                 !.file = AudioToWrite(generate_tts_chunks(tts.req)),
                 !.writes = tts.writes + 1]
    /\ UNCHANGED notTtsVars

\* The codec fails to concatenate the buffers of several chunks.
ConcatRaise ==
    /\ tts.pc = "write"
    /\ Len(tts.chunks) > 1
    /\ tts' = [tts EXCEPT !.pc = "failed"]
    /\ UNCHANGED notTtsVars

NextTts ==
    \/ create_speech
    \/ \E i \in 1..MaxChunks : SynthReturn(i)
    \/ \E i \in 1..MaxChunks : SynthRaise(i)
    \/ WriteSpeech
    \/ ConcatRaise

SpecTts == InitTts /\ [][NextTts]_vars

(***************************************************************************)
(* Compression.  A path is a record of directory, stem and extension.      *)
(***************************************************************************)
MaxMbChoices == {1, 25}

NoPath == [dir |-> "", stem |-> "", ext |-> ""]

CmpVariants == {"AudioService", "server", "whisper_local"}

CmpInputs ==
    {[dir |-> "in", stem |-> "x", ext |-> "wav"],
     [dir |-> "in", stem |-> "x", ext |-> "mp3"],
     [dir |-> "in", stem |-> "x", ext |-> "MP3"]}

CmpOutputs == {NoPath, [dir |-> "out", stem |-> "y", ext |-> "mp3"]}

\* threshold_bytes = max_mb * 1024 * 1024
ThresholdBytes(max_mb) == max_mb * 1024 * 1024

CmpSizes(max_mb) ==
    {ThresholdBytes(max_mb) - 1, ThresholdBytes(max_mb),
     ThresholdBytes(max_mb) + 1, 2 * ThresholdBytes(max_mb)}

\* An off-by-one bound that compresses a file of exactly the threshold.
StrictlyBelowThreshold(file_size, max_mb) == file_size < ThresholdBytes(max_mb)

\* maybe_compress_file: if file_size <= threshold_bytes: return input_file
WithinThreshold(file_size, max_mb) == file_size <= ThresholdBytes(max_mb)

\* AudioProcessor.calculate_compression_needed.
calculate_compression_needed(file_size, max_mb) ==
    file_size > ThresholdBytes(max_mb)

NoCompressionNeeded(variant, file_size, max_mb) ==
    IF variant = "AudioService"
    THEN ~calculate_compression_needed(file_size, max_mb)
    ELSE WithinThreshold(file_size, max_mb)

\* A comparison of the extension that takes the letter case into account.
IsMp3CaseSensitive(p) == p.ext = "mp3"

\* input_file.suffix.lower() != ".mp3" / not input_file.lower().endswith(".mp3")
IsMp3(p) == Lower(p.ext) = "mp3"

\* input_file.with_suffix(".mp3") / base + ".mp3"
WithMp3Suffix(p) == [p EXCEPT !.ext = "mp3"]

\* A compressed path that is always in the working directory.
CompressedPathInCwd(variant, p) ==
    [dir |-> ".", stem |-> "compressed_" \o p.stem, ext |-> "mp3"]

\* The path the downsampled file is written to when none was supplied:
\* next to the input for AudioService, in the working directory for the
\* two maybe_compress_file versions.
CompressedPath(variant, p) ==
    [dir |-> IF variant = "AudioService" THEN p.dir ELSE ".",
     stem |-> "compressed_" \o p.stem, ext |-> "mp3"]

\* A loop that compresses again while the result is above the threshold.
RepeatWhileTooLarge(new_size, max_mb) ==
    IF new_size > ThresholdBytes(max_mb) THEN "downsample" ELSE "done"

\* After the downsample the compressed path is returned, whatever its size.
AfterDownsample(new_size, max_mb) == "done"

InitCmp ==
    /\ IdleCache
    /\ IdleBatch
    /\ IdleTts
    /\ IdleList
    /\ IdleWl
    /\ IdleSup
    /\ \E v \in CmpVariants, in \in CmpInputs, out \in CmpOutputs,
          mb \in MaxMbChoices :
          \E size \in CmpSizes(mb) :
             /\ v = "whisper_local" => out = NoPath
             /\ cmp = [pc |-> "start", variant |-> v, input |-> in,
                       output |-> out, max_mb |-> mb, size |-> size,
                       cur |-> in, ret |-> NoPath, err |-> "none",
                       log |-> <<>>, new_size |-> 0]

\* The size check: a file within the threshold is returned as it is.
CheckSize ==
    /\ cmp.pc = "start"
    /\ cmp' = IF NoCompressionNeeded(cmp.variant, cmp.size, cmp.max_mb)
              THEN [cmp EXCEPT !.pc = "done", !.ret = cmp.input]
              ELSE IF ~IsMp3(cmp.input)
              THEN [cmp EXCEPT !.pc = "convert"]
              ELSE [cmp EXCEPT !.pc = "downsample"]
    /\ UNCHANGED notCmpVars

\* The conversion to mp3 (convert_audio / convert_to_supported_format):
\* the converted file is written next to the input and becomes the input
\* of the downsample.
ConvertToMp3(ok) ==
    /\ cmp.pc = "convert"
    /\ cmp' = IF ok
              THEN [cmp EXCEPT
                      !.pc = "downsample",
                      !.cur = WithMp3Suffix(cmp.cur),
                      !.log = Append(cmp.log, [op |-> "convert", src |-> cmp.cur,
                                               dst |-> WithMp3Suffix(cmp.cur)])]
              ELSE [cmp EXCEPT !.pc = "failed", !.err = "convert"]
    /\ UNCHANGED notCmpVars

\* The downsample (compress_mp3 / compress_mp3_file) and the return of the
\* compressed path.
Downsample(ok, new_size) ==
    /\ cmp.pc = "downsample"
    /\ LET dst == IF cmp.output # NoPath THEN cmp.output
                  ELSE CompressedPath(cmp.variant, cmp.cur)
       IN cmp' = IF ok /\ IsMp3(cmp.cur)
                 THEN [cmp EXCEPT
                         !.pc = AfterDownsample(new_size, cmp.max_mb),
                         !.ret = dst,
                         !.new_size = new_size,
                         !.log = Append(cmp.log, [op |-> "downsample",
                                                  src |-> cmp.cur, dst |-> dst])]
                 ELSE [cmp EXCEPT !.pc = "failed", !.err = "downsample"]
    /\ UNCHANGED notCmpVars

NextCmp ==
    \/ CheckSize
    \/ \E ok \in BOOLEAN : ConvertToMp3(ok)
    \/ \E ok \in BOOLEAN :
          \E new_size \in {ThresholdBytes(cmp.max_mb) \div 2,
                           ThresholdBytes(cmp.max_mb) + 1} :
             Downsample(ok, new_size)

SpecCmp == InitCmp /\ [][NextCmp]_vars

(***************************************************************************)
(* Listing.  FileService.list_audio_files lists the files of the audio     *)
(* directory, asks the global cache for the support record of each, keeps  *)
(* the records that pass the filters and sorts them.  An optional value is *)
(* the empty sequence for None and a one-element sequence otherwise.       *)
(***************************************************************************)
MaxListCalls == 2      \* list_audio_files calls on one directory

None == <<>>

Some(v) == <<v>>

\* The files of the audio directory: two of them share their size, two
\* their modified time and two their format; the duration of one could not
\* be determined.
Directory ==
    {[name |-> "a", size |-> 10, duration |-> Some(5), mtime |-> 100, format |-> "mp3"],
     [name |-> "b", size |-> 10, duration |-> None, mtime |-> 200, format |-> "wav"],
     [name |-> "c", size |-> 20, duration |-> Some(7), mtime |-> 200, format |-> "mp3"]}

\* The orders in which the filesystem may list the directory.
Listings ==
    {s \in [1..Cardinality(Directory) -> Directory] :
        \A i, j \in 1..Cardinality(Directory) : i # j => s[i] # s[j]}

SizeBounds == {None, Some(10), Some(20)}

DurationBounds == {None, Some(5), Some(7)}

TimeBounds == {None, Some(100), Some(200)}

\* The filter arguments of list_audio_files (pattern and format_filter are
\* left at None).
Criteria ==
    [min_size_bytes : SizeBounds, max_size_bytes : SizeBounds,
     min_duration_seconds : DurationBounds, max_duration_seconds : DurationBounds,
     min_modified_time : TimeBounds, max_modified_time : TimeBounds]

\* constants.SortBy
SortBy == {"name", "size", "duration", "modified_time", "format"}

\* The order of the strings of the model (path names and formats).
StringOrder == <<"a", "b", "c", "mp3", "wav">>

StrRank(s) == CHOOSE i \in 1..Len(StringOrder) : StringOrder[i] = s

\* The optional value v lies within the optional inclusive bounds lo and
\* hi; a value that is unknown passes only when neither bound is given.
WithinBounds(v, lo, hi) ==
    IF lo = None /\ hi = None THEN TRUE
    ELSE IF v = None THEN FALSE
    ELSE /\ (lo = None \/ lo[1] <= v[1])
         /\ (hi = None \/ v[1] <= hi[1])

\* FileSystemRepository.list_audio_files: the files of the directory in
\* listing order, without those outside the size bounds.
RepoList(listing, c) ==
    SelectSeq(listing,
              LAMBDA f : WithinBounds(Some(f.size), c.min_size_bytes, c.max_size_bytes))

\* FileSystemRepository.get_audio_file_support: the support record of a
\* file.
FileSupportRecord(f) ==
    [path |-> f.name, size_bytes |-> f.size, duration_seconds |-> f.duration,
     modified_time |-> f.mtime, format |-> f.format]

\* A filter that takes an unknown duration for a duration of zero.
ApplyFiltersUnknownAsZero(r, c) ==
    /\ WithinBounds(Some(r.size_bytes), c.min_size_bytes, c.max_size_bytes)
    /\ WithinBounds(IF r.duration_seconds = None THEN Some(0) ELSE r.duration_seconds,
                    c.min_duration_seconds, c.max_duration_seconds)
    /\ WithinBounds(Some(r.modified_time), c.min_modified_time, c.max_modified_time)

\* FileFilterSorter.apply_all_filters.
apply_all_filters(r, c) ==
    /\ WithinBounds(Some(r.size_bytes), c.min_size_bytes, c.max_size_bytes)
    /\ WithinBounds(r.duration_seconds, c.min_duration_seconds, c.max_duration_seconds)
    /\ WithinBounds(Some(r.modified_time), c.min_modified_time, c.max_modified_time)

\* The value a record is sorted by, None when the record lacks it.
SortValue(r, sort_by) ==
    CASE sort_by = "name" -> Some(StrRank(r.path))
      [] sort_by = "size" -> Some(r.size_bytes)
      [] sort_by = "duration" -> r.duration_seconds
      [] sort_by = "modified_time" -> Some(r.modified_time)
      [] sort_by = "format" -> Some(StrRank(r.format))

\* Record x goes before record y: records that have the value before those
\* that lack it, then by the value (descending when reverse is set), and
\* by path name ascending among equals.
Precedes(x, y, sort_by, reverse) ==
    LET vx == SortValue(x, sort_by)
        vy == SortValue(y, sort_by)
    IN IF (vx = None) # (vy = None) THEN vy = None
       ELSE IF vx = None \/ vx = vy THEN StrRank(x.path) < StrRank(y.path)
       ELSE IF reverse THEN vx[1] > vy[1]
       ELSE vx[1] < vy[1]

RECURSIVE InsertSorted(_, _, _, _)
InsertSorted(r, sorted, sort_by, reverse) ==
    IF sorted = <<>> THEN <<r>>
    ELSE IF Precedes(r, Head(sorted), sort_by, reverse) THEN <<r>> \o sorted
    ELSE <<Head(sorted)>> \o InsertSorted(r, Tail(sorted), sort_by, reverse)

RECURSIVE sort_files(_, _, _)
\* FileFilterSorter.sort_files.
sort_files(files, sort_by, reverse) ==
    IF files = <<>> THEN <<>>
    ELSE InsertSorted(Head(files), sort_files(Tail(files), sort_by, reverse),
                      sort_by, reverse)

\* Step 2 of list_audio_files: gather hands back the support records in
\* the order of file_paths.
SupportResults(file_paths) ==
    [i \in 1..Len(file_paths) |-> FileSupportRecord(file_paths[i])]

\* A filter step that hands on the size bounds only.
FilteredResultsBySizeOnly(file_support_results, c) ==
    SelectSeq(file_support_results,
              LAMBDA r : WithinBounds(Some(r.size_bytes),
                                      c.min_size_bytes, c.max_size_bytes))

\* Step 3 of list_audio_files: the records apply_all_filters accepts, with
\* all six bounds handed to it.
FilteredResults(file_support_results, c) ==
    SelectSeq(file_support_results, LAMBDA r : apply_all_filters(r, c))

\* Record x goes strictly before record y by the sort value alone.
KeyBefore(x, y, sort_by, reverse) ==
    LET vx == SortValue(x, sort_by)
        vy == SortValue(y, sort_by)
    IN IF (vx = None) # (vy = None) THEN vy = None
       ELSE IF vx = None \/ vx = vy THEN FALSE
       ELSE IF reverse THEN vx[1] > vy[1]
       ELSE vx[1] < vy[1]

RECURSIVE InsertStable(_, _, _, _)
InsertStable(r, sorted, sort_by, reverse) ==
    IF sorted = <<>> THEN <<r>>
    ELSE IF KeyBefore(Head(sorted), r, sort_by, reverse)
    THEN <<Head(sorted)>> \o InsertStable(r, Tail(sorted), sort_by, reverse)
    ELSE <<r>> \o sorted

RECURSIVE SortedByKeyOnly(_, _, _)
\* A stable sort by the key alone: records with equal keys stay in the
\* order the filesystem listed them.
SortedByKeyOnly(filtered_results, sort_by, reverse) ==
    IF filtered_results = <<>> THEN <<>>
    ELSE InsertStable(Head(filtered_results),
                      SortedByKeyOnly(Tail(filtered_results), sort_by, reverse),
                      sort_by, reverse)

RECURSIVE ReverseSeq(_)
ReverseSeq(s) ==
    IF s = <<>> THEN <<>> ELSE Append(ReverseSeq(Tail(s)), Head(s))

\* A descending sort made by turning the ascending listing around, which
\* brings the records that lack the key to the front.
SortedThenReversed(filtered_results, sort_by, reverse) ==
    IF reverse THEN ReverseSeq(sort_files(filtered_results, sort_by, FALSE))
    ELSE sort_files(filtered_results, sort_by, FALSE)

\* Step 4 of list_audio_files.
SortedResults(filtered_results, sort_by, reverse) ==
    sort_files(filtered_results, sort_by, reverse)

\* What list_audio_files returns for a directory listed in the given order.
ListResult(listing, c, sort_by, reverse) ==
    SortedResults(FilteredResults(SupportResults(RepoList(listing, c)), c),
                  sort_by, reverse)

\* The keys the cache is asked for: str(path) and path.stat().st_mtime.
ListKeys(file_paths) ==
    {<<file_paths[i].name, file_paths[i].mtime>> : i \in 1..Len(file_paths)}

InitList ==
    /\ IdleCache
    /\ IdleBatch
    /\ IdleTts
    /\ IdleCmp
    /\ IdleWl
    /\ IdleSup
    /\ \E l \in Listings, c \in Criteria, k \in SortBy, rev \in BOOLEAN :
          lst = [pc |-> "idle", listing |-> l, criteria |-> c, sort_by |-> k,
                 reverse |-> rev, cached |-> {}, file_paths |-> <<>>,
                 stale |-> FALSE, n |-> 0, result |-> <<>>, err |-> "none",
                 previous |-> [pc |-> "idle", result |-> <<>>]]

\* list_audio_files up to the await of the gather: the directory is listed
\* and one cache get per file is started.  A get for a key that is not
\* resident stores a new coroutine under it; a get for a resident key is
\* handed the coroutine an earlier call has already awaited.
\* The outcome of the call before is kept in "previous".
list_audio_files ==
    /\ lst.pc \in {"idle", "returned", "raised"}
    /\ lst.n < MaxListCalls
    /\ LET file_paths == RepoList(lst.listing, lst.criteria)
       IN lst' = [lst EXCEPT
                    !.pc = "gather",
                    !.n = lst.n + 1,
                    !.file_paths = file_paths,
                    !.stale = (ListKeys(file_paths) \cap lst.cached # {}),
                    !.cached = lst.cached \cup ListKeys(file_paths),
                    !.previous = [pc |-> lst.pc, result |-> lst.result],
                    !.result = <<>>,
                    !.err = "none"]
    /\ UNCHANGED notListVars

\* The gather ends: with the RuntimeError of a get that awaited a used
\* coroutine, or with the support records, which are filtered, sorted and
\* returned.
GatherSupport ==
    /\ lst.pc = "gather"
    /\ lst' = IF lst.stale
              THEN [lst EXCEPT !.pc = "raised",
                               !.err = "cannot reuse already awaited coroutine"]
              ELSE [lst EXCEPT
                      !.pc = "returned",
                      !.result = SortedResults(
                                    FilteredResults(SupportResults(lst.file_paths),
                                                    lst.criteria),
                                    lst.sort_by, lst.reverse)]
    /\ UNCHANGED notListVars

NextList ==
    \/ list_audio_files
    \/ GatherSupport

SpecList == InitList /\ [][NextList]_vars

(***************************************************************************)
(* whisper_local.  main dispatches to do_gpt4o_audio, to the               *)
(* transcribe_audio tool (through run_mcp_transcription_tool) or to        *)
(* do_whisper_transcription; the three pipelines check that the input      *)
(* exists, convert it to mp3 unless it is a wav or an mp3, hand it to      *)
(* maybe_compress_file, check the size and make the remote call.           *)
(***************************************************************************)
MaxConversation == 2   \* messages in the conversation file before the run

\* max_mb=25 / 25 * 1024 * 1024
WlMaxMb == 25

WlEntries ==
    {"main", "do_whisper_transcription", "do_gpt4o_audio", "transcribe_audio"}

\* The input paths of the modelled runs, with what the filesystem holds.
WlFiles ==
    {[path |-> [dir |-> "in", stem |-> "a", ext |-> "wav"], exists |-> TRUE,
      size |-> ThresholdBytes(WlMaxMb) \div 2],
     [path |-> [dir |-> "in", stem |-> "b", ext |-> "MP3"], exists |-> TRUE,
      size |-> ThresholdBytes(WlMaxMb)],
     [path |-> [dir |-> "in", stem |-> "c", ext |-> "mp3"], exists |-> TRUE,
      size |-> ThresholdBytes(WlMaxMb) + 1],
     [path |-> [dir |-> "in", stem |-> "d", ext |-> "wav"], exists |-> TRUE,
      size |-> ThresholdBytes(WlMaxMb) + 1],
     [path |-> [dir |-> "in", stem |-> "e", ext |-> "m4a"], exists |-> TRUE,
      size |-> ThresholdBytes(WlMaxMb) \div 2],
     [path |-> [dir |-> "in", stem |-> "f", ext |-> "flac"], exists |-> TRUE,
      size |-> ThresholdBytes(WlMaxMb) + 1],
     [path |-> [dir |-> "in", stem |-> "g", ext |-> "wav"], exists |-> FALSE,
      size |-> 0]}

\* A content part of a message: a text, or the audio with its format.
TextPart(text, n) == [type |-> "text", text |-> text, n |-> n]

AudioPart(format) == [type |-> "input_audio", text |-> format, n |-> 0]

\* The i-th message of the conversation file before the run.
StoredMessage(i) ==
    [role |-> IF i % 2 = 1 THEN "user" ELSE "assistant",
     content |-> <<TextPart("earlier", i)>>]

StoredConversation(n) == [i \in 1..n |-> StoredMessage(i)]

\* gpt4o.py:86-95: the text part when the stripped prompt is not empty,
\* then the input_audio part.
UserMessage(text_prompt, ext) ==
    [role |-> "user",
     content |-> (IF text_prompt # "" THEN <<TextPart(text_prompt, 0)>>
                  ELSE <<>>) \o <<AudioPart(ext)>>]

\* gpt4o.py:129
AssistantMessage == [role |-> "assistant", content |-> <<TextPart("reply", 0)>>]

\* ext = ext.lower().replace(".", ""); ext not in ("wav", "mp3")
NeedsConversion(p) == Lower(p.ext) \notin {"wav", "mp3"}

\* main.py:60  args.input.lower().endswith((".wav", ".mp3", ".m4a", ".ogg"))
McpRouted(p) == Lower(p.ext) \in {"wav", "mp3", "m4a", "ogg"}

\* main_async, lines 53-82: the pipeline an existing input is handed to.
Route(use_gpt4o, p) ==
    IF use_gpt4o THEN "do_gpt4o_audio"
    ELSE IF McpRouted(p) THEN "transcribe_audio"
    ELSE "do_whisper_transcription"

\* convert.py:4 and convert.py:74 are plain functions (def), the remote
\* create methods of AsyncOpenAI are coroutine functions.
IsCoroutineFunction(f) ==
    f \notin {"convert_to_supported_format", "maybe_compress_file"}

\* await f(...): f runs to its end first; what a plain function returned is
\* a str, and awaiting it raises TypeError.
AwaitCall(f, r) ==
    IF r.err # <<>> \/ IsCoroutineFunction(f) THEN r
    ELSE [r EXCEPT !.err = <<"object str can't be used in 'await' expression">>]

\* convert_to_supported_format(input_file, "mp3"): writes base + ".mp3".
convert_to_supported_format(p, size, ok, new_size) ==
    IF ok
    THEN [path |-> WithMp3Suffix(p), size |-> new_size, err |-> <<>>,
          log |-> <<[op |-> "convert", src |-> p, dst |-> WithMp3Suffix(p)]>>]
    ELSE [path |-> p, size |-> size, err |-> <<"Error converting file: ">>,
          log |-> <<>>]

\* compress_mp3_file(mp3_file_path, 11025): writes compressed_<name>.mp3 to
\* the working directory.
compress_mp3_file(p, size, ok, new_size) ==
    IF ok /\ IsMp3(p)
    THEN [path |-> CompressedPath("whisper_local", p), size |-> new_size,
          err |-> <<>>,
          log |-> <<[op |-> "downsample", src |-> p,
                     dst |-> CompressedPath("whisper_local", p)]>>]
    ELSE [path |-> p, size |-> size,
          err |-> <<"Error compressing mp3 file: ">>, log |-> <<>>]

\* maybe_compress_file(input_file, max_mb): the path and size of the file it
\* returns, the files it wrote, and the exception it raised if any.
maybe_compress_file(p, size, max_mb, okConv, convSize, okComp, new_size) ==
    IF WithinThreshold(size, max_mb)
    THEN [path |-> p, size |-> size, err |-> <<>>, log |-> <<>>]
    ELSE LET c == IF IsMp3(p)
                  THEN [path |-> p, size |-> size, err |-> <<>>, log |-> <<>>]
                  ELSE convert_to_supported_format(p, size, okConv, convSize)
         IN IF c.err # <<>>
            THEN [c EXCEPT
                    !.err = <<"[maybe_compress_file] Error converting to MP3: ">>
                            \o c.err]
            ELSE LET d == compress_mp3_file(c.path, c.size, okComp, new_size)
                 IN [d EXCEPT
                       !.log = c.log \o d.log,
                       !.err = IF d.err = <<>> THEN <<>>
                               ELSE <<"[maybe_compress_file] Error compressing MP3 file: ">>
                                    \o d.err]

\* sys.exit(1) after the printed message in the two command line pipelines,
\* raise ValueError(message) in the tool.
WlFail(w, msg) ==
    IF w.op = "transcribe_audio"
    THEN [w EXCEPT !.pc = "raised", !.err = msg]
    ELSE [w EXCEPT !.pc = "exited", !.code = 1, !.err = msg]

\* The remote call of the pipeline and what follows it.
\*   do_whisper_transcription  transcribe.py:51-68
\*   do_gpt4o_audio            gpt4o.py:82-162
\*   transcribe_audio          mcp_server.py:45-107
RemoteStep(w, r) ==
    LET ext == Lower(r.path.ext)
        conversation == w.conv \o <<UserMessage(w.text_prompt, ext)>>
        chat == w.op = "do_gpt4o_audio"
                  \/ (w.op = "transcribe_audio" /\ w.use_gpt4o)
        messages == IF w.op = "do_gpt4o_audio" THEN conversation
                    ELSE IF chat THEN <<UserMessage(w.text_prompt, ext)>>
                    ELSE <<>>
        call == [api |-> IF chat THEN "chat.completions.create"
                         ELSE "audio.transcriptions.create",
                 path |-> r.path, size |-> r.size, messages |-> messages]
        sent == [w EXCEPT !.path = r.path, !.size = r.size,
                          !.remote = Append(w.remote, call)]
    IN IF w.service = "down"
       THEN WlFail(sent, <<IF w.op = "transcribe_audio"
                           THEN (IF chat THEN "GPT-4o processing failed: "
                                 ELSE "Whisper processing failed: ")
                           ELSE (IF chat THEN "Error calling GPT-4o: "
                                 ELSE "Error: ")>>)
       ELSE [sent EXCEPT
               !.pc = "returned",
               !.result = <<"reply">>,
               !.conv = IF w.op = "do_gpt4o_audio"
                        THEN conversation \o <<AssistantMessage>>
                        ELSE w.conv]

\* A pipeline that sends whatever file the compression step left.
SendWithoutCheck(w, r) == RemoteStep(w, [r EXCEPT !.err = <<>>])

\* What follows "await maybe_compress_file(...)": the except clause, the
\* final size check, then the remote call.
AfterCompress(w, r) ==
    IF r.err # <<>> THEN WlFail(w, <<"Error during compression: ">> \o r.err)
    ELSE IF r.size > 25 * 1024 * 1024
    THEN WlFail(w, <<"still above 25MB: ", PathStr(r.path)>>)
    ELSE RemoteStep(w, r)

\* The process or the tool call as it starts: the entry point, its
\* arguments, the input file, the conversation file and the remote service.
InitWl ==
    /\ IdleCache
    /\ IdleBatch
    /\ IdleTts
    /\ IdleCmp
    /\ IdleList
    /\ IdleSup
    /\ \E e \in WlEntries, f \in WlFiles, g \in BOOLEAN,
          n \in 0..MaxConversation, t \in {"", "New question"},
          s \in {"up", "down"} :
          /\ e = "do_whisper_transcription" => ~g
          /\ e = "do_gpt4o_audio" => g
          /\ ~g => (n = 0 /\ t = "")
          /\ wl = [pc |-> IF e = "main" THEN "main" ELSE "start",
                   entry |-> e, op |-> IF e = "main" THEN "none" ELSE e,
                   use_gpt4o |-> g, input |-> f, text_prompt |-> t,
                   service |-> s, path |-> f.path, size |-> f.size,
                   called |-> <<>>, log |-> <<>>, remote |-> <<>>,
                   stored |-> StoredConversation(n),
                   conv |-> StoredConversation(n), code |-> 0,
                   err |-> <<>>, result |-> <<>>,
                   compressed |-> FALSE, final_size |-> f.size]

\* main_async up to the call of the pipeline: print_error_and_exit for a
\* missing input, otherwise the pipeline Route chooses.
main_async ==
    /\ wl.pc = "main"
    /\ wl' = IF ~wl.input.exists
             THEN [wl EXCEPT !.pc = "exited", !.code = 1,
                             !.err = <<"Could not find audio file ",
                                       PathStr(wl.path)>>]
             ELSE [wl EXCEPT !.pc = "start",
                             !.op = Route(wl.use_gpt4o, wl.path),
                             !.called = Append(wl.called,
                                               Route(wl.use_gpt4o, wl.path))]
    /\ UNCHANGED notWlVars

\* The existence check that opens each pipeline.
CheckInput ==
    /\ wl.pc = "start"
    /\ wl' = IF wl.input.exists THEN [wl EXCEPT !.pc = "convert"]
             ELSE WlFail(wl, IF wl.op = "transcribe_audio"
                             THEN <<"File not found", ": ", PathStr(wl.path)>>
                             ELSE <<"Could not find audio file ",
                                    PathStr(wl.path)>>)
    /\ UNCHANGED notWlVars

\* The conversion of an input that is neither wav nor mp3:
\* new_path = await convert_to_supported_format(...), with its except clause.
Convert(ok, new_size) ==
    /\ wl.pc = "convert"
    /\ wl' = IF ~NeedsConversion(wl.path) THEN [wl EXCEPT !.pc = "compress"]
             ELSE LET r == AwaitCall("convert_to_supported_format",
                                     convert_to_supported_format(
                                         wl.path, wl.size, ok, new_size))
                      w == [wl EXCEPT !.log = wl.log \o r.log,
                                      !.final_size = r.size]
                  IN IF r.err # <<>>
                     THEN WlFail(w, <<"Error converting file: ">> \o r.err)
                     ELSE [w EXCEPT !.pc = "compress", !.path = r.path,
                                    !.size = r.size]
    /\ UNCHANGED notWlVars

\* The compression step and the rest of the pipeline:
\* await maybe_compress_file(path, max_mb=25), then AfterCompress.
Compress(okConv, convSize, okComp, new_size) ==
    /\ wl.pc = "compress"
    /\ LET m == maybe_compress_file(wl.path, wl.size, WlMaxMb, okConv,
                                    convSize, okComp, new_size)
           r == AwaitCall("maybe_compress_file", m)
           w == [wl EXCEPT !.log = wl.log \o m.log, !.compressed = TRUE,
                           !.final_size = m.size]
       IN wl' = AfterCompress(w, r)
    /\ UNCHANGED notWlVars

NextWl ==
    \/ main_async
    \/ CheckInput
    \/ \E ok \in BOOLEAN :
          \E new_size \in {ThresholdBytes(WlMaxMb) \div 2,
                           ThresholdBytes(WlMaxMb) + 1} :
             Convert(ok, new_size)
    \/ \E okConv \in BOOLEAN, okComp \in BOOLEAN :
          \E convSize \in {ThresholdBytes(WlMaxMb) + 1},
             new_size \in {ThresholdBytes(WlMaxMb) \div 2,
                           ThresholdBytes(WlMaxMb) + 1} :
             Compress(okConv, convSize, okComp, new_size)

SpecWl == InitWl /\ [][NextWl]_vars

\* The run is over: sys.exit, an exception out of the tool, or a return.
WlEnded == wl.pc \in {"exited", "raised", "returned"}

(***************************************************************************)
(* The legacy server's get_audio_file_support (server.py).  A path is the  *)
(* sequence of its pieces, with "/" and "." as pieces of their own, so     *)
(* that the extension is something splitext has to find.                   *)
(***************************************************************************)
MaxSupportCalls == 2   \* get_audio_file_support calls in one behaviour

\* The paths asked about, each seen with the modified times of SupTimes.
SupPaths ==
    {<<"a", ".", "mp3">>, <<"b", ".", "MP3">>, <<"a", ".", "wav">>,
     <<"b", ".", "WAV">>, <<"a", ".", "m4a">>, <<"a", ".", "webm">>,
     <<"a", ".", "ogg">>, <<"a">>, <<".", "mp3">>,
     <<"a", ".", "mp3", ".", "ogg">>, <<"a", ".", "ogg", ".", "wav">>,
     <<"d", ".", "mp3", "/", "a">>}

SupTimes == {100, 200}

\* str.lower(), piece by piece.
LowerPath(p) == [i \in 1..Len(p) |-> Lower(p[i])]

RECURSIVE LastIndexOf(_, _, _)
\* str.rfind: the last position at or before i that holds piece c, else 0.
LastIndexOf(p, c, i) ==
    IF i = 0 THEN 0
    ELSE IF p[i] = c THEN i
    ELSE LastIndexOf(p, c, i - 1)

RECURSIVE SkipDots(_, _)
\* The first position at or after i that does not hold a dot.
SkipDots(p, i) ==
    IF i <= Len(p) /\ p[i] = "." THEN SkipDots(p, i + 1) ELSE i

\* os.path.splitext(p)[1]: the pieces from the last dot of the last path
\* component on, unless that dot is one of the leading dots of the
\* component; the empty sequence when there is no such dot.
SplitExt(p) ==
    LET sep == LastIndexOf(p, "/", Len(p))
        dot == LastIndexOf(p, ".", Len(p))
    IN IF dot > sep /\ SkipDots(p, sep + 1) < dot
       THEN SubSeq(p, dot, Len(p))
       ELSE <<>>

\* whisper_formats and gpt4o_formats
WhisperFormats ==
    {<<".", "mp3">>, <<".", "wav">>, <<".", "mp4">>, <<".", "mpeg">>,
     <<".", "mpga">>, <<".", "m4a">>, <<".", "webm">>}

Gpt4oFormats == {<<".", "mp3">>, <<".", "wav">>}

\* An extension taken from the path as it is written.
FileExtAsWritten(p) == SplitExt(p)

\* file_ext = os.path.splitext(file_path.lower())[1]
FileExt(p) == SplitExt(LowerPath(p))

\* get_audio_file_support(file_path) for a file whose modified time is mtime.
get_audio_file_support(p, mtime) ==
    [path |-> p,
     transcription_support |->
         IF FileExt(p) \in WhisperFormats THEN Some(<<"whisper-1">>) ELSE None,
     llm_support |->
         IF FileExt(p) \in Gpt4oFormats
         THEN Some(<<"gpt-4o-audio-preview-2024-10-01">>) ELSE None,
     modified_time |-> mtime]

InitSup ==
    /\ IdleCache
    /\ IdleBatch
    /\ IdleTts
    /\ IdleCmp
    /\ IdleList
    /\ IdleWl
    /\ sup = <<>>

\* One call of get_audio_file_support, as get_latest_audio and
\* list_audio_files make it for a file of the audio directory.
GetSupport(p, mtime) ==
    /\ Len(sup) < MaxSupportCalls
    /\ sup' = Append(sup, [file |-> p, mtime |-> mtime,
                           result |-> get_audio_file_support(p, mtime)])
    /\ UNCHANGED notSupVars

NextSup == \E p \in SupPaths, mtime \in SupTimes : GetSupport(p, mtime)

SpecSup == InitSup /\ [][NextSup]_vars

(***************************************************************************)
(* C8: create_speech on a text of k > 1 chunks writes to the output file   *)
(* the audio of the chunks concatenated in chunk order, whatever the order *)
(* in which the k synthesis requests completed.                            *)
(***************************************************************************)
C8_ChunksConcatenatedInOrder ==
    (tts.pc = "done" /\ Len(tts.chunks) > 1) =>
        /\ Len(tts.file) = Len(tts.chunks)
        /\ \A i \in 1..Len(tts.chunks) :
              tts.file[i] = text_to_speech(tts.chunks[i])[1]
        /\ tts.file = tts.text

C8_Witness ==
    /\ tts.pc = "done"
    /\ Len(tts.chunks) = 3
    /\ tts.text[1] # tts.text[3]
    /\ tts.order = <<3, 2, 1>>

LogCount(kind) ==
    Cardinality({i \in 1..Len(cmp.log) : cmp.log[i].op = kind})

(***************************************************************************)
(* C9: a compress call on a file of at most max_mb * 1024 * 1024 bytes     *)
(* returns its own input path with no conversion, no downsample and no     *)
(* file written, also when an output path was supplied; a file of one byte *)
(* more is compressed.                                                     *)
(***************************************************************************)
C9_NoOpBoundary ==
    /\ (cmp.pc # "start" /\ cmp.size <= ThresholdBytes(cmp.max_mb)) =>
          /\ cmp.pc = "done"
          /\ cmp.ret = cmp.input
          /\ cmp.log = <<>>
    /\ (cmp.pc = "done" /\ cmp.size > ThresholdBytes(cmp.max_mb)) =>
          LogCount("downsample") = 1

C9_Witness ==
    /\ cmp.pc = "done"
    /\ cmp.size = ThresholdBytes(cmp.max_mb)
    /\ cmp.output # NoPath
    /\ cmp.variant = "server"

(***************************************************************************)
(* C10: a compress call on an oversized file makes exactly one downsample  *)
(* and then ends; when the result is still above the threshold it returns  *)
(* the compressed path without an error.                                   *)
(***************************************************************************)
C10_SinglePass ==
    /\ LogCount("downsample") <= 1
    /\ LogCount("downsample") = 1 =>
          /\ cmp.pc = "done"
          /\ cmp.err = "none"
          /\ cmp.ret = cmp.log[Len(cmp.log)].dst
    /\ cmp.pc \in {"done", "failed"} => ~ENABLED NextCmp

C10_Witness ==
    /\ cmp.pc = "done"
    /\ LogCount("downsample") = 1
    /\ cmp.new_size > ThresholdBytes(cmp.max_mb)

AllFinished == batch.state # "idle" /\ \A i \in 1..Len(task) : Finished(task[i])

\* Task i finished before task j did.
FinishedBefore(i, j) ==
    \E a, b \in 1..Len(order) : a < b /\ order[a] = i /\ order[b] = j

(***************************************************************************)
(* C1: when every item of a batch succeeds, the result list is as long as  *)
(* the input list and its i-th element is the result of the i-th input,    *)
(* whatever the order in which the items completed.                        *)
(***************************************************************************)
C1_BatchResultsInInputOrder ==
    batch.state = "returned" =>
        /\ Len(batch.results) = Len(inputs)
        /\ \A i \in 1..Len(inputs) :
              /\ batch.results[i].op = batchOp
              /\ batch.results[i].of = PathStr(inputs[i].path)
              /\ batch.results[i] = task[i].result

C1_Witness ==
    /\ batch.state = "returned"
    /\ \E i, j \in 1..Len(inputs) :
          /\ i < j
          /\ inputs[i] # inputs[j]
          /\ FinishedBefore(j, i)

(***************************************************************************)
(* C5: when any item of a batch fails, the batch call ends in an error and *)
(* the caller gets no result list, full or partial, wherever the failing   *)
(* item stands and in whatever order the other items complete.             *)
(***************************************************************************)
C5_ItemFailureFailsBatch ==
    (\E i \in 1..Len(task) : task[i].pc = "failed") =>
        /\ batch.state = "raised"
        /\ batch.results = <<>>

C5_Witness ==
    /\ AllFinished
    /\ batch.state = "raised"
    /\ \E i, j \in 1..Len(task) :
          /\ j < i
          /\ task[i].pc = "failed"
          /\ task[j].pc = "done"
          /\ FinishedBefore(j, i)

(***************************************************************************)
(* C6: the error a failed batch hands to its caller contains the file path *)
(* of the item that failed and the text of the underlying cause, for every *)
(* kind of failure.                                                        *)
(***************************************************************************)
C6_ErrorNamesPathAndCause ==
    batch.state = "raised" =>
        /\ Contains(batch.err.msg, PathStr(inputs[batch.item].path))
        /\ Contains(batch.err.msg, batch.err.cause)

(***************************************************************************)
(* C7: every item of a batch is dispatched before the caller awaits any    *)
(* result, and an item's failure neither skips nor cancels the others:     *)
(* every task ends, a task fails only with the error of its own validation *)
(* or of a call it started itself, and every task that ends without error  *)
(* has started each of its calls, in order.                                *)
(***************************************************************************)
OwnError(t) ==
    \/ t.err = Validate(batchOp, t.input)
    \/ \E k \in 1..Len(t.started) :
          /\ k = Len(t.started)
          /\ t.err = StageError(batchOp, t.started[k], t.input)

C7_Attempted ==
    /\ batch.state # "idle" => Len(task) = Len(inputs)
    /\ \A i \in 1..Len(task) :
          /\ task[i].pc = "failed" => OwnError(task[i])
          /\ (task[i].pc = "done" /\ ~task[i].result.early)
                => task[i].started = Stages(batchOp, task[i].input)

C7_OtherItemsStillRun == [](C7_Attempted) /\ <>[](AllFinished)

C7_Witness ==
    /\ AllFinished
    /\ batchOp = "chat_with_audio_batch"
    /\ \E i, j \in 1..Len(task) :
          /\ task[i].pc = "failed"
          /\ task[i].started = <<>>
          /\ task[j].pc = "done"
          /\ task[j].started = <<"read", "remote">>
          /\ FinishedBefore(i, j)

SameKey(a, b) == a.path = b.path /\ a.mtime = b.mtime /\ a.fn = b.fn

Completed(c) == c.pc \in {"returned", "raised"}

Count(b) == IF b THEN 1 ELSE 0

\* No call before call j, since the last clear, asked for the key of call j.
FreshKey(j) ==
    \A i \in 1..(j - 1) :
        calls[i].epoch = calls[j].epoch => ~SameKey(calls[i], calls[j])

(***************************************************************************)
(* C2: a get whose (path, mtime) key is resident, after the call that      *)
(* stored the entry has completed normally, completes normally and returns *)
(* the stored SupportInfo without invoking the compute function.           *)
(***************************************************************************)
C2_HitReturnsStoredValue ==
    \A j \in 1..Len(calls) :
        (calls[j].hit /\ calls[j].found = "returned")
            => /\ calls[j].pc = "returned"
               /\ calls[j].result = SupportInfo(calls[j].path, calls[j].mtime)
               /\ ~calls[j].computed

(***************************************************************************)
(* C3: two sequential gets with the same key and compute function invoke   *)
(* the compute function at most once in total; a following sequential get  *)
(* with the same path and a modified time not asked for before invokes it  *)
(* exactly once more, two invocations in total when the first key was new  *)
(* as well.                                                                *)
(***************************************************************************)
C3_Pair(j) ==
    /\ j + 1 <= Len(calls)
    /\ SameKey(calls[j], calls[j + 1])
    /\ calls[j + 1].epoch = calls[j].epoch
    /\ calls[j + 1].sequential

C3_Triple(j) ==
    /\ C3_Pair(j)
    /\ j + 2 <= Len(calls)
    /\ calls[j + 2].path = calls[j].path
    /\ calls[j + 2].fn = calls[j].fn
    /\ calls[j + 2].mtime # calls[j].mtime
    /\ calls[j + 2].epoch = calls[j].epoch
    /\ calls[j + 2].sequential
    /\ FreshKey(j + 2)

C3_SequentialGetsComputeOnce ==
    \A j \in 1..Len(calls) :
        /\ C3_Pair(j) =>
              Count(calls[j].computed) + Count(calls[j + 1].computed) <= 1
        /\ C3_Triple(j) =>
              /\ calls[j + 2].computed
              /\ FreshKey(j) =>
                    Count(calls[j].computed) + Count(calls[j + 1].computed)
                      + Count(calls[j + 2].computed) = 2

C3_Witness ==
    \E j \in 1..Len(calls) :
        /\ C3_Triple(j)
        /\ FreshKey(j)
        /\ calls[j].sequential
        /\ \A i \in {j, j + 1, j + 2} : Completed(calls[i])

(***************************************************************************)
(* C4: a get that starts while another get with the same key is suspended  *)
(* inside the compute function completes normally, as does the first one,  *)
(* and both return the SupportInfo of the key.                             *)
(***************************************************************************)
C4_OverlappingGetsBothComplete ==
    \A j \in 1..Len(calls) :
        calls[j].overlap =>
            /\ calls[j].err \notin {"being_awaited", "reuse"}
            /\ calls[j].pc = "returned" =>
                  calls[j].result = SupportInfo(calls[j].path, calls[j].mtime)
            /\ \A i \in 1..(j - 1) :
                  (calls[i].coro = calls[j].coro /\ calls[i].pc = "returned")
                      => calls[i].result = SupportInfo(calls[i].path, calls[i].mtime)

ChatOps == {"chat_with_audio_batch", "transcribe_with_llm"}

\* The extension of the file is neither mp3 nor wav in any letter case.
OtherExtension(f) == Lower(f.path.ext) \notin {"mp3", "wav"}

(***************************************************************************)
(* C12: a chat-with-audio item whose extension is neither mp3 nor wav in   *)
(* any letter case never begins the read of its file and never begins a    *)
(* remote call; once its coroutine has run it has failed with an error.    *)
(***************************************************************************)
C12_ChatRejectsExtensionBeforeRemote ==
    batchOp \in ChatOps =>
        \A i \in 1..Len(task) :
            OtherExtension(task[i].input) =>
                /\ task[i].started = <<>>
                /\ task[i].pc \in {"pending", "failed"}
                /\ task[i].pc = "failed" => task[i].err # NoError

C12_Witness ==
    /\ batchOp = "chat_with_audio_batch"
    /\ \E i, j \in 1..Len(task) :
          /\ OtherExtension(task[i].input)
          /\ task[i].pc = "failed"
          /\ task[i].err = ExtensionError(task[i].input)
          /\ task[j].input.path.ext = "WAV"
          /\ Contains(task[j].started, "remote")

(***************************************************************************)
(* One call that reaches a remote service: either one batch call or one    *)
(* create_speech call, the other component staying as constructed.         *)
(***************************************************************************)
InitRemote == InitBatch \/ InitTts

NextRemote ==
    \/ batchOp # "none" /\ NextBatch
    \/ tts.pc # "none" /\ NextTts

SpecRemote == InitRemote /\ [][NextRemote]_vars

\* The number of times stage was begun by a task.
StartedCount(t, stage) ==
    Cardinality({k \in 1..Len(t.started) : t.started[k] = stage})

\* The batch operations whose items make a remote call.
RemoteOps ==
    {"transcribe_audio_batch", "chat_with_audio_batch",
     "transcribe_audio", "transcribe_with_llm"}

(***************************************************************************)
(* C13: an item issues its remote call at most once and, once it has got   *)
(* past its local steps, exactly once; an item whose remote call failed    *)
(* has failed with the error of that call and has begun nothing after it.  *)
(* Each synthesis request of create_speech is likewise sent once, also     *)
(* when it failed.                                                         *)
(***************************************************************************)
C13_RemoteCallAttemptedOnce ==
    /\ batchOp \in RemoteOps =>
          \A i \in 1..Len(task) :
              /\ StartedCount(task[i], "remote") <= 1
              /\ task[i].pc = "done" => StartedCount(task[i], "remote") = 1
              /\ (task[i].pc = "failed" /\ StartedCount(task[i], "remote") = 1) =>
                    /\ task[i].started[Len(task[i].started)] = "remote"
                    /\ task[i].err.cause = "remote error"
    /\ tts.pc # "none" =>
          \A i \in 1..Len(tts.req) :
              /\ tts.req[i].requests = 1
              /\ Len(tts.req) = Len(tts.chunks)

C13_Witness ==
    /\ batchOp = "transcribe_audio_batch"
    /\ \A j \in 1..Len(task) : Finished(task[j])
    /\ \E i \in 1..Len(task) :
          /\ task[i].pc = "failed"
          /\ task[i].started = <<"read", "remote">>
          /\ task[i].err.cause = "remote error"

\* The key a get call asked for.
KeyOf(c) == <<c.path, c.mtime, c.fn>>

\* The get calls made since the last clear.
EpochCalls == {j \in 1..Len(calls) : calls[j].epoch = epoch}

\* The keys asked for since the last clear.
EpochKeys == {KeyOf(calls[j]) : j \in EpochCalls}

\* The last get call since the last clear that asked for key k.
LastAccess(k) ==
    CHOOSE j \in EpochCalls :
        /\ KeyOf(calls[j]) = k
        /\ \A i \in EpochCalls : KeyOf(calls[i]) = k => i <= j

ResidentKeys == {cache[i].key : i \in 1..Len(cache)}

Min(a, b) == IF a < b THEN a ELSE b

(***************************************************************************)
(* C14: the resident entries are the most recently accessed keys: an       *)
(* insertion into a full cache drops exactly one entry, the one accessed   *)
(* least recently, and a hit counts as an access.  In every state the      *)
(* cache holds min(capacity, keys asked for since the last clear) distinct *)
(* keys, every key that is not resident was last accessed before every     *)
(* resident one, and the residents are kept in order of their last access. *)
(***************************************************************************)
C14_EvictsLeastRecentlyAccessed ==
    /\ ResidentKeys \subseteq EpochKeys
    /\ Len(cache) = Min(maxsize, Cardinality(EpochKeys))
    /\ Cardinality(ResidentKeys) = Len(cache)
    /\ \A i, j \in 1..Len(cache) :
          i < j => LastAccess(cache[i].key) < LastAccess(cache[j].key)
    /\ \A k \in EpochKeys \ ResidentKeys :
          \A r \in ResidentKeys : LastAccess(k) < LastAccess(r)

C14_Witness ==
    /\ maxsize = 2
    /\ Len(calls) = 4
    /\ EpochCalls = 1..4
    /\ KeyOf(calls[3]) = KeyOf(calls[1])
    /\ calls[3].hit
    /\ KeyOf(calls[2]) \notin {KeyOf(calls[1]), KeyOf(calls[4])}
    /\ KeyOf(calls[4]) # KeyOf(calls[1])
    /\ ResidentKeys = {KeyOf(calls[1]), KeyOf(calls[4])}

(***************************************************************************)
(* C15: in every state the number of resident entries is at most the       *)
(* capacity the cache was built with, and cache_info reports that same     *)
(* capacity and that occupancy.  The modelled capacity is CacheSize, a     *)
(* capacity within the 32 of the global cache.                             *)
(***************************************************************************)
C15_OccupancyWithinCapacity ==
    /\ Len(cache) <= maxsize
    /\ cache_info.currsize = Len(cache)
    /\ cache_info.currsize <= cache_info.maxsize
    /\ cache_info.maxsize = CacheSize
    /\ CacheSize <= GlobalMaxsize

C15_Witness ==
    /\ Len(cache) = maxsize
    /\ epoch = 0
    /\ cache_info.misses = maxsize + 1
    /\ \E j \in 1..Len(calls) : calls[j].hit

\* A step that takes an entry out of the cache.
EntryRemoved == ~(ResidentKeys \subseteq ResidentKeys')

\* The step is a clear of a cache that held something.
ClearStep == epoch' = epoch + 1 /\ cache' = <<>>

\* The step is a get that found the cache full and stored a new key,
\* dropping one entry.
EvictionStep ==
    /\ Len(calls') = Len(calls) + 1
    /\ Len(cache) = maxsize
    /\ ~calls'[Len(calls')].hit
    /\ Cardinality(ResidentKeys \ ResidentKeys') = 1

C16_ClearedWhenNoGetSince == (EpochCalls = {}) => (cache = <<>>)

C16_FirstGetAfterClearComputes ==
    \A j \in 1..Len(calls) :
        (\A i \in 1..(j - 1) :
            calls[i].epoch = calls[j].epoch => KeyOf(calls[i]) # KeyOf(calls[j]))
          => (~calls[j].hit /\ calls[j].computed)

(***************************************************************************)
(* C16: after clear_cache the cache holds no entry, and the first get      *)
(* after the clear for a key, resident before the clear or not, invokes    *)
(* the compute function.  An entry leaves the cache only in a clear step   *)
(* or when a get stores a new key in a full cache; a get with another      *)
(* modified time for a resident path removes nothing while there is room.  *)
(***************************************************************************)
C16_ClearDropsAllEntries ==
    /\ [](C16_ClearedWhenNoGetSince /\ C16_FirstGetAfterClearComputes)
    /\ [][EntryRemoved => (ClearStep \/ EvictionStep)]_vars

C16_Witness ==
    /\ epoch = 1
    /\ Cardinality({i \in 1..Len(calls) : calls[i].epoch = 0}) = 2
    /\ \E i, k, j \in 1..Len(calls) :
          /\ calls[i].epoch = 0 /\ calls[k].epoch = 0
          /\ calls[i].path = calls[k].path
          /\ calls[i].mtime # calls[k].mtime
          /\ calls[j].epoch = 1
          /\ KeyOf(calls[j]) = KeyOf(calls[i])
          /\ calls[j].computed
          /\ calls[j].pc = "returned"

(***************************************************************************)
(* C17: create_speech sends exactly one synthesis request per chunk of the *)
(* text (one request for a text of one chunk).  It writes at most one      *)
(* file, and only once every request has returned its audio; a call that   *)
(* returned normally has written exactly one.  When a request failed no    *)
(* file is written, in that state or later.                                *)
(***************************************************************************)
C17_OneRequestPerChunkOneWrite ==
    tts.pc \notin {"none", "idle"} =>
        /\ Len(tts.req) = Len(tts.text)
        /\ \A i \in 1..Len(tts.req) : tts.req[i].requests = 1
        /\ tts.writes <= 1
        /\ tts.writes = 1 <=> tts.pc = "done"
        /\ tts.writes = 1 => \A i \in 1..Len(tts.req) : tts.req[i].pc = "done"
        /\ (\E i \in 1..Len(tts.req) : tts.req[i].pc = "failed") =>
              (tts.writes = 0 /\ tts.file = <<>> /\ tts.pc = "failed")

C17_Witness ==
    /\ tts.pc = "failed"
    /\ Len(tts.req) = 3
    /\ tts.req[2].pc = "failed"
    /\ tts.req[1].pc = "done"
    /\ tts.req[3].pc = "done"
    /\ tts.order = <<2, 1, 3>>
    /\ tts.writes = 0

\* The optional inclusive bounds lo and hi, where supplied, hold of the
\* optional value v.
BoundsHold(lo, v, hi) ==
    /\ lo # <<>> => (v # <<>> /\ lo[1] <= v[1])
    /\ hi # <<>> => (v # <<>> /\ v[1] <= hi[1])

\* Every supplied bound of the criteria holds of file f.
SatisfiesCriteria(f, c) ==
    /\ BoundsHold(c.min_size_bytes, <<f.size>>, c.max_size_bytes)
    /\ BoundsHold(c.min_duration_seconds, f.duration, c.max_duration_seconds)
    /\ BoundsHold(c.min_modified_time, <<f.mtime>>, c.max_modified_time)

ResultPaths == {lst.result[i].path : i \in 1..Len(lst.result)}

(***************************************************************************)
(* C18: a list_audio_files call that returns hands back exactly the        *)
(* records of the files for which every supplied bound holds inclusively,  *)
(* each once and with the values of the file: no file violating a supplied *)
(* bound is in it, none satisfying them all is missing, and an absent      *)
(* bound excludes nothing.                                                 *)
(***************************************************************************)
C18_ListReturnsExactlyTheMatches ==
    lst.pc = "returned" =>
        /\ ResultPaths = {f.name : f \in {g \in Directory : SatisfiesCriteria(g, lst.criteria)}}
        /\ Cardinality(ResultPaths) = Len(lst.result)
        /\ \A i \in 1..Len(lst.result) :
              \E f \in Directory :
                 /\ f.name = lst.result[i].path
                 /\ f.size = lst.result[i].size_bytes
                 /\ f.duration = lst.result[i].duration_seconds
                 /\ f.mtime = lst.result[i].modified_time

C18_Witness ==
    /\ lst.pc = "returned"
    /\ lst.criteria.min_duration_seconds = <<5>>
    /\ lst.criteria.max_duration_seconds = <<5>>
    /\ lst.criteria.min_size_bytes = <<>>
    /\ lst.criteria.max_modified_time = <<100>>
    /\ ResultPaths = {"a"}

(***************************************************************************)
(* C19: a file whose duration is unknown is left out of the listing        *)
(* whenever a minimum or a maximum duration is supplied, and is kept       *)
(* whenever neither is supplied and its size and modified time are within  *)
(* the supplied bounds.                                                    *)
(***************************************************************************)
C19_UnknownDurationAndBounds ==
    lst.pc = "returned" =>
        \A f \in Directory :
            f.duration = <<>> =>
                /\ (lst.criteria.min_duration_seconds # <<>>
                      \/ lst.criteria.max_duration_seconds # <<>>)
                     => f.name \notin ResultPaths
                /\ (/\ lst.criteria.min_duration_seconds = <<>>
                    /\ lst.criteria.max_duration_seconds = <<>>
                    /\ BoundsHold(lst.criteria.min_size_bytes, <<f.size>>,
                                  lst.criteria.max_size_bytes)
                    /\ BoundsHold(lst.criteria.min_modified_time, <<f.mtime>>,
                                  lst.criteria.max_modified_time))
                     => f.name \in ResultPaths

C19_Witness ==
    /\ lst.pc = "returned"
    /\ lst.criteria.min_duration_seconds = <<>>
    /\ lst.criteria.max_duration_seconds = <<7>>
    /\ lst.criteria.min_size_bytes = <<>>
    /\ lst.criteria.max_size_bytes = <<>>
    /\ lst.criteria.min_modified_time = <<>>
    /\ lst.criteria.max_modified_time = <<>>
    /\ ResultPaths = {"a", "c"}

(***************************************************************************)
(* C20: with reverse = false the listing is in ascending order of the      *)
(* requested key, and records with equal key values are in ascending order *)
(* of their path names; the listing is the same for every order in which   *)
(* the filesystem may list the directory.                                  *)
(***************************************************************************)
C20_AscendingWithNameTieBreak ==
    (lst.pc = "returned" /\ ~lst.reverse) =>
        /\ \A i, j \in 1..Len(lst.result) :
              LET vi == SortValue(lst.result[i], lst.sort_by)
                  vj == SortValue(lst.result[j], lst.sort_by)
              IN (i < j /\ vi # <<>> /\ vj # <<>>) =>
                    \/ vi[1] < vj[1]
                    \/ /\ vi[1] = vj[1]
                       /\ StrRank(lst.result[i].path) < StrRank(lst.result[j].path)
        /\ \A l \in Listings :
              ListResult(l, lst.criteria, lst.sort_by, FALSE) = lst.result

C20_Witness ==
    /\ lst.pc = "returned"
    /\ ~lst.reverse
    /\ lst.sort_by = "size"
    /\ lst.listing[1].name = "b"
    /\ lst.listing[2].name = "a"
    /\ Len(lst.result) = 3
    /\ lst.result[1].path = "a"
    /\ lst.result[2].path = "b"
    /\ lst.result[1].size_bytes = lst.result[2].size_bytes

(***************************************************************************)
(* C21: in a listing sorted by an attribute that some of its records lack, *)
(* no record lacking the attribute comes before a record that has it, with *)
(* reverse = false and with reverse = true.                                *)
(***************************************************************************)
C21_RecordsLackingKeySortLast ==
    lst.pc = "returned" =>
        \A i, j \in 1..Len(lst.result) :
            (/\ SortValue(lst.result[i], lst.sort_by) = <<>>
             /\ SortValue(lst.result[j], lst.sort_by) # <<>>)
               => j < i

C21_Witness ==
    /\ lst.pc = "returned"
    /\ lst.reverse
    /\ lst.sort_by = "duration"
    /\ Len(lst.result) = 3
    /\ lst.result[1].path = "c"
    /\ lst.result[2].path = "a"
    /\ lst.result[3].path = "b"
    /\ lst.result[3].duration_seconds = <<>>

(***************************************************************************)
(* C22: in the whisper_local pipelines (do_whisper_transcription,          *)
(* do_gpt4o_audio, the transcribe_audio tool) no remote call is ever made  *)
(* with a file larger than 25 * 1024 * 1024 bytes; when the file left by   *)
(* the conversion/compression step is larger than that, the run ends in an *)
(* error (exit code 1, or ValueError for the tool) without a remote call.  *)
(***************************************************************************)
C22_NoRemoteCallAboveLimit ==
    /\ \A i \in 1..Len(wl.remote) :
          wl.remote[i].size <= ThresholdBytes(WlMaxMb)
    /\ (WlEnded /\ wl.compressed /\ wl.final_size > ThresholdBytes(WlMaxMb)) =>
          /\ wl.remote = <<>>
          /\ wl.err # <<>>
          /\ IF wl.op = "transcribe_audio" THEN wl.pc = "raised"
             ELSE wl.pc = "exited" /\ wl.code = 1

C22_Witness ==
    /\ WlEnded
    /\ wl.compressed
    /\ wl.final_size > ThresholdBytes(WlMaxMb)
    /\ \E i \in 1..Len(wl.log) : wl.log[i].op = "downsample"
    /\ wl.op = "do_gpt4o_audio"
    /\ wl.remote = <<>>

(***************************************************************************)
(* C23: whisper_local main, for an existing input of any extension, calls  *)
(* do_whisper_transcription exactly once and do_gpt4o_audio never when     *)
(* --use-gpt4o is not given, and do_gpt4o_audio exactly once and           *)
(* do_whisper_transcription never when it is given; for a missing input it *)
(* calls neither and exits with code 1.                                    *)
(***************************************************************************)
C23_MainDispatch ==
    (wl.entry = "main" /\ wl.pc # "main") =>
        IF ~wl.input.exists
        THEN wl.called = <<>> /\ wl.pc = "exited" /\ wl.code = 1
        ELSE IF wl.use_gpt4o THEN wl.called = <<"do_gpt4o_audio">>
        ELSE wl.called = <<"do_whisper_transcription">>

(***************************************************************************)
(* C24: do_gpt4o_audio with a conversation file of n messages, on a valid  *)
(* input with the remote service answering: the messages sent are the n    *)
(* stored messages followed by one user message that ends with the         *)
(* input_audio part, and the file then holds those n + 1 messages followed *)
(* by the assistant message carrying the reply.                            *)
(***************************************************************************)
C24_ConversationGrowsByTwo ==
    (/\ wl.op = "do_gpt4o_audio"
     /\ WlEnded
     /\ wl.input.exists
     /\ ~NeedsConversion(wl.input.path)
     /\ wl.input.size <= ThresholdBytes(WlMaxMb)
     /\ wl.service = "up") =>
        LET user == UserMessage(wl.text_prompt, Lower(wl.input.path.ext))
        IN /\ Len(wl.remote) = 1
           /\ wl.remote[1].messages = wl.stored \o <<user>>
           /\ user.content[Len(user.content)].type = "input_audio"
           /\ Len(wl.conv) = Len(wl.stored) + 2
           /\ wl.conv = wl.stored \o <<user, AssistantMessage>>

(***************************************************************************)
(* C25: the whisper_local transcribe_audio tool with use_gpt4o = false     *)
(* converts and compresses nothing for an existing .wav or .mp3 of at most *)
(* 25MB, calls the transcription API exactly once and returns the          *)
(* transcript without error; for a path that is not an existing file it    *)
(* fails with an error containing 'File not found' before any conversion,  *)
(* compression or remote call.                                             *)
(***************************************************************************)
C25_ToolTranscribesSupportedFile ==
    (wl.op = "transcribe_audio" /\ ~wl.use_gpt4o /\ WlEnded) =>
        /\ (/\ wl.input.exists
            /\ ~NeedsConversion(wl.input.path)
            /\ wl.input.size <= ThresholdBytes(WlMaxMb)
            /\ wl.service = "up") =>
               /\ wl.log = <<>>
               /\ Len(wl.remote) = 1
               /\ wl.remote[1].api = "audio.transcriptions.create"
               /\ wl.pc = "returned"
               /\ wl.result = <<"reply">>
               /\ wl.err = <<>>
        /\ ~wl.input.exists =>
               /\ wl.pc = "raised"
               /\ Contains(wl.err, "File not found")
               /\ wl.log = <<>>
               /\ wl.remote = <<>>

\* The extension of a path, lower-cased.
LowerCasedExtension(p) == LowerPath(SplitExt(p))

(***************************************************************************)
(* C26: every record get_audio_file_support produces carries the file's    *)
(* modified time, and its support lists depend only on the lower-cased     *)
(* extension: each list is None when the extension is outside the          *)
(* recognized set of that capability and otherwise the same fixed list for *)
(* every file; a record with a chat (llm) support list also has a          *)
(* transcription support list.                                             *)
(***************************************************************************)
C26_SupportDependsOnExtensionOnly ==
    \A i \in 1..Len(sup) :
       LET r == sup[i].result
           ext == LowerCasedExtension(sup[i].file)
       IN /\ r.modified_time = sup[i].mtime
          /\ r.transcription_support =
                IF ext \in WhisperFormats THEN Some(<<"whisper-1">>) ELSE None
          /\ r.llm_support =
                IF ext \in Gpt4oFormats
                THEN Some(<<"gpt-4o-audio-preview-2024-10-01">>) ELSE None
          /\ r.llm_support # None => r.transcription_support # None
          /\ \A j \in 1..Len(sup) :
                LowerCasedExtension(sup[j].file) = ext =>
                   /\ sup[j].result.transcription_support = r.transcription_support
                   /\ sup[j].result.llm_support = r.llm_support

C26_Witness ==
    /\ Len(sup) = 2
    /\ sup[1].file = <<"a", ".", "mp3">>
    /\ sup[2].file = <<"b", ".", "MP3">>
    /\ sup[1].mtime # sup[2].mtime
    /\ sup[2].result.llm_support # None
    /\ sup[2].result.transcription_support # None

(***************************************************************************)
(* C27: cache entries are keyed by (path, mtime) alone: a get for a        *)
(* (path, mtime) that has a resident entry is a hit and invokes no compute *)
(* function, whichever compute function is passed to it.                   *)
(***************************************************************************)
C27_KeyedByPathAndMtimeAlone ==
    [][Len(calls') = Len(calls) + 1 =>
          LET c == calls'[Len(calls')]
          IN (\E i \in 1..Len(cache) :
                 cache[i].key[1] = c.path /\ cache[i].key[2] = c.mtime) =>
                /\ c.hit
                /\ ~c.computed
                /\ Len(coros') = Len(coros)]_vars

(***************************************************************************)
(* C28: when the compute function fails for a key nothing is stored for    *)
(* that key, and the next get with the same (path, mtime) invokes the      *)
(* compute function again.                                                 *)
(***************************************************************************)
C28_FailureStoresNothing ==
    [][/\ \A i \in 1..Len(cache') : coros'[cache'[i].coro].state # "failed"
       /\ Len(calls') = Len(calls) + 1 =>
             LET c == calls'[Len(calls')]
                 same == {j \in 1..Len(calls) :
                             /\ calls[j].path = c.path
                             /\ calls[j].mtime = c.mtime
                             /\ calls[j].fn = c.fn}
             IN (same # {} /\ \A j \in same : calls[j].err = "compute_error") =>
                   /\ c.computed
                   /\ c.pc = "suspended"]_vars

(***************************************************************************)
(* C29: FileService.list_audio_files called twice in sequence with the     *)
(* same arguments on an unchanged directory completes normally both times  *)
(* and returns the same list both times.                                   *)
(***************************************************************************)
C29_SecondListingReturnsTheSame ==
    (/\ lst.n >= 2
     /\ lst.pc \in {"returned", "raised"}
     /\ lst.previous.pc = "returned") =>
        /\ lst.pc = "returned"
        /\ lst.result = lst.previous.result

(***************************************************************************)
(* C30 (as stated): AudioService.compress_audio called with no output path *)
(* writes at most one file, the compressed_<stem>.mp3 it returns.          *)
(***************************************************************************)
C30_WritesAtMostTheReturnedFile ==
    (cmp.variant = "AudioService" /\ cmp.output = NoPath) =>
        /\ Len(cmp.log) <= 1
        /\ \A i \in 1..Len(cmp.log) :
              cmp.log[i].dst = [dir |-> cmp.input.dir,
                                stem |-> "compressed_" \o cmp.input.stem,
                                ext |-> "mp3"]

(***************************************************************************)
(* C30 (amended): AudioService.compress_audio called with no output path   *)
(* writes nothing when no compression is needed; otherwise it writes at    *)
(* most the compressed_<stem>.mp3 next to the input, which it returns,     *)
(* and, for an input that is not an mp3, before it the converted           *)
(* <stem>.mp3 next to the input.  The input file is never written.         *)
(***************************************************************************)
C30_WritesConvertedAndCompressedOnly ==
    (cmp.variant = "AudioService" /\ cmp.output = NoPath) =>
        LET converted == [cmp.input EXCEPT !.ext = "mp3"]
            compressed == [dir |-> cmp.input.dir,
                           stem |-> "compressed_" \o cmp.input.stem,
                           ext |-> "mp3"]
            mp3 == cmp.input.ext \in {"mp3", "MP3"}
        IN /\ Len(cmp.log) <= (IF mp3 THEN 1 ELSE 2)
           /\ \A i \in 1..Len(cmp.log) :
                 /\ cmp.log[i].dst # cmp.input
                 /\ cmp.log[i].dst = compressed
                       \/ (~mp3 /\ i = 1 /\ cmp.log[i].dst = converted)
           /\ cmp.size <= cmp.max_mb * 1024 * 1024 => cmp.log = <<>>
           /\ (cmp.pc = "done" /\ cmp.size > cmp.max_mb * 1024 * 1024) =>
                 /\ cmp.ret = compressed
                 /\ cmp.log[Len(cmp.log)].dst = compressed

C30_Witness ==
    /\ cmp.variant = "AudioService"
    /\ cmp.output = NoPath
    /\ cmp.input.ext = "wav"
    /\ cmp.pc = "done"
    /\ Len(cmp.log) = 2
    /\ cmp.log[1].dst = [cmp.input EXCEPT !.ext = "mp3"]
    /\ cmp.log[1].dst # cmp.ret

====
